---- MODULE Spec2Model ----
(***************************************************************************)
(* Model of s3torchconnector/dcp/s3_file_system.py: the S3FileSystem       *)
(* adapter (rename, exists, rm_file, _delete_with_retry, _escape_path),    *)
(* S3StorageWriter (write_data, finish) and S3StorageReader                *)
(* (read_metadata, set_up_storage_reader, read_data).                      *)
(*                                                                         *)
(* A path "s3://<bucket>/<seg>/<seg>..." is the sequence                   *)
(* <<bucket, seg, seg, ...>> of its segments; the object store is a        *)
(* function from paths to object contents.  Every call of the S3 client    *)
(* is appended to a log, and every call takes an outcome ("ok" or the      *)
(* message of the S3Exception the service answers with).                   *)
(***************************************************************************)
EXTENDS Integers, Sequences, FiniteSets, TLC

VARIABLES
    world,      \* [store, calls]: the bucket contents and the writer-side client's call log
    writer,     \* S3StorageWriter: path, num_copies, single_file_per_rank
    metadata,   \* the Metadata object handed to finish: storage_data, storage_meta
    save,       \* the save driver: pc, file_queue, results, err, store0, storage_meta0
    reader,     \* S3StorageReader: path, num_copies, assigned_copy, rank, storage_data
    load,       \* the load driver: pc, metadata, err, seen, reads (read_data calls made), last (the last one)
    dist,       \* torch.distributed as the reader sees it: state, rank
    fs,         \* the last direct S3FileSystem call: op, old, new, o, err, val, before
    threads     \* the read_data calls running on the reader, step by step: pc and locals

vars == <<world, writer, metadata, save, reader, load, dist, fs, threads>>

----------------------------------------------------------------------------
(* Bounds of the model *)

MaxCopies == 2
NumItems == 2
MaxReads == 2
MaxFlags == 2
MaxCallers == 2

(* Program constants *)

MaxAttempts == 3

_metadata_fn == ".metadata"
DEFAULT_SUFFIX == ".distcp"

----------------------------------------------------------------------------
(* Exceptions *)

NoErr == [type |-> "none", msg |-> ""]
S3Exception(msg) == [type |-> "S3Exception", msg |-> msg]
PyError(type) == [type |-> type, msg |-> ""]

NotFoundMsg == "Service error: The object was not found"
TransientMsg == "Client error: Request timed out"
DeniedMsg == "Service error: Forbidden"
SelfCopyMsg == "Service error: InvalidRequest"

\* What the service may answer to one request, apart from what the store's
\* contents decide (a missing object is answered with NotFoundMsg).
Outcomes == {"ok", TransientMsg, DeniedMsg}

----------------------------------------------------------------------------
(* Paths *)

_path_or_str_to_str(path) == path

parse_s3_uri(path) == [bucket |-> Head(path), key |-> Tail(path)]

Uri(bucket, key) == <<bucket>> \o key

\* urllib.parse.quote(part, safe=""): every character outside
\* [A-Za-z0-9_.~-] becomes its percent-encoding.  The segments of this
\* model hold one reserved character, the space.
Quote(part) ==
    CASE part = "ck pt" -> "ck%20pt"
      [] part = "ck%20pt" -> "ck%2520pt"
      [] OTHER -> part

\* The service URL-decodes the copy source it is given.
Unquote(part) ==
    CASE part = "ck%20pt" -> "ck pt"
      [] part = "ck%2520pt" -> "ck%20pt"
      [] OTHER -> part

_escape_path(key) == [i \in 1..Len(key) |-> Quote(key[i])]

concat_path(path, suffix) == path \o suffix

----------------------------------------------------------------------------
(* The S3 client: each primitive logs its call and answers *)

Has(store, path) == path \in DOMAIN store

StorePut(store, path, content) ==
    [p \in (DOMAIN store) \cup {path} |-> IF p = path THEN content ELSE store[p]]

StoreDel(store, path) == [p \in (DOMAIN store) \ {path} |-> store[p]]

Logged(w, op, path, src, msg, store2) ==
    [store |-> IF msg = "" THEN store2 ELSE w.store,
     calls |-> Append(w.calls, [op |-> op, path |-> path, src |-> src, err |-> msg])]

Answer(w, msg, val) ==
    [w |-> w, err |-> IF msg = "" THEN NoErr ELSE S3Exception(msg), val |-> val]

put_object(w, bucket, key, content, out) ==
    LET path == Uri(bucket, key)
        msg == IF out = "ok" THEN "" ELSE out
    IN Answer(Logged(w, "put", path, <<>>, msg, StorePut(w.store, path, content)), msg, 0)

head_object(w, bucket, key, out) ==
    LET path == Uri(bucket, key)
        msg == IF out # "ok" THEN out
               ELSE IF Has(w.store, path) THEN "" ELSE NotFoundMsg
    IN Answer(Logged(w, "head", path, <<>>, msg, w.store), msg, 0)

delete_object(w, bucket, key, out) ==
    LET path == Uri(bucket, key)
        msg == IF out = "ok" THEN "" ELSE out
    IN Answer(Logged(w, "delete", path, <<>>, msg, StoreDel(w.store, path)), msg, 0)

copy_object(w, src_bucket, src_key, dst_bucket, dst_key, out) ==
    LET src == Uri(src_bucket, [i \in 1..Len(src_key) |-> Unquote(src_key[i])])
        dst == Uri(dst_bucket, dst_key)
        msg == IF out # "ok" THEN out
               ELSE IF ~Has(w.store, src) THEN NotFoundMsg
               ELSE IF src = dst THEN SelfCopyMsg ELSE ""
    IN Answer(Logged(w, "copy", dst, src, msg,
                     IF Has(w.store, src) THEN StorePut(w.store, dst, w.store[src])
                     ELSE w.store),
              msg, 0)

\* get_object on the reader's own client: the object, or an S3Exception.
get_object(store, bucket, key, out) ==
    LET path == Uri(bucket, key)
        msg == IF out # "ok" THEN out
               ELSE IF Has(store, path) THEN "" ELSE NotFoundMsg
    IN [err |-> IF msg = "" THEN NoErr ELSE S3Exception(msg),
        val |-> IF msg = "" THEN store[path] ELSE <<>>]

----------------------------------------------------------------------------
(* S3FileSystem *)

\* create_stream(path, "wb") with the whole body written and the stream closed
create_stream_wb(w, path, content, out) ==
    LET loc == parse_s3_uri(_path_or_str_to_str(path))
    IN put_object(w, loc.bucket, loc.key, content, out)

create_stream_rb(store, path, out) ==
    LET loc == parse_s3_uri(_path_or_str_to_str(path))
    IN get_object(store, loc.bucket, loc.key, out)

RECURSIVE Attempt(_, _, _, _, _)
Attempt(w, bucket_name, old_key, outs, n) ==
    LET r == delete_object(w, bucket_name, old_key, outs[n])
    IN IF r.err.type = "S3Exception" /\ n < MaxAttempts
       THEN Attempt(r.w, bucket_name, old_key, outs, n + 1)
       ELSE r

\* variant: the failure of the last attempt is logged, not raised
_delete_best_effort(w, bucket_name, old_key, outs) ==
    [Attempt(w, bucket_name, old_key, outs, 1) EXCEPT !.err = NoErr]

\* variant: a single attempt
_delete_once(w, bucket_name, old_key, outs) ==
    delete_object(w, bucket_name, old_key, outs[1])

\* variant: on exhaustion the error of the first attempt is raised
_delete_first_error(w, bucket_name, old_key, outs) ==
    LET a == Attempt(w, bucket_name, old_key, outs, 1)
    IN IF a.err = NoErr THEN a
       ELSE [a EXCEPT !.err = delete_object(w, bucket_name, old_key, outs[1]).err]

_delete_with_retry(w, bucket_name, old_key, outs) ==
    Attempt(w, bucket_name, old_key, outs, 1)

\* variant: the old object is deleted first, then copied
rename_delete_first(w, old_path, new_path, o) ==
    LET old == parse_s3_uri(_path_or_str_to_str(old_path))
        new == parse_s3_uri(_path_or_str_to_str(new_path))
        d == _delete_with_retry(w, old.bucket, old.key, o.del)
    IN IF old.bucket # new.bucket
       THEN [w |-> w, err |-> PyError("ValueError"), val |-> 0]
       ELSE IF d.err # NoErr THEN d
       ELSE copy_object(d.w, old.bucket, _escape_path(old.key), new.bucket, new.key, o.copy)

\* variant: the buckets are not compared
rename_across_buckets(w, old_path, new_path, o) ==
    LET old == parse_s3_uri(_path_or_str_to_str(old_path))
        new == parse_s3_uri(_path_or_str_to_str(new_path))
        c == copy_object(w, old.bucket, _escape_path(old.key), new.bucket, new.key, o.copy)
    IN IF c.err # NoErr THEN c
       ELSE _delete_with_retry(c.w, old.bucket, old.key, o.del)

rename(w, old_path, new_path, o) ==
    LET old == parse_s3_uri(_path_or_str_to_str(old_path))
        new == parse_s3_uri(_path_or_str_to_str(new_path))
        escaped_old_key == _escape_path(old.key)
    IN IF old.bucket # new.bucket
       THEN [w |-> w, err |-> PyError("ValueError"), val |-> 0]
       ELSE LET c == copy_object(w, old.bucket, escaped_old_key, new.bucket, new.key, o.copy)
            IN IF c.err # NoErr THEN c
               ELSE _delete_with_retry(c.w, old.bucket, old.key, o.del)

\* variant: every S3Exception of the probe is taken for "not there"
exists_false_on_error(w, path, out) ==
    LET loc == parse_s3_uri(_path_or_str_to_str(path))
        h == head_object(w, loc.bucket, loc.key, out)
    IN [w |-> h.w, err |-> NoErr, val |-> h.err = NoErr]

exists(w, path, out) ==
    LET loc == parse_s3_uri(_path_or_str_to_str(path))
        h == head_object(w, loc.bucket, loc.key, out)
    IN IF h.err.type = "S3Exception"
       THEN IF h.err.msg # NotFoundMsg
            THEN [w |-> h.w, err |-> h.err, val |-> FALSE]
            ELSE [w |-> h.w, err |-> NoErr, val |-> FALSE]
       ELSE [w |-> h.w, err |-> NoErr, val |-> TRUE]

\* variant: the S3Exception of the delete is raised
rm_file_raising(w, path, out) ==
    LET loc == parse_s3_uri(_path_or_str_to_str(path))
    IN delete_object(w, loc.bucket, loc.key, out)

rm_file(w, path, out) ==
    LET loc == parse_s3_uri(_path_or_str_to_str(path))
        d == delete_object(w, loc.bucket, loc.key, out)
    IN [w |-> d.w, err |-> NoErr, val |-> 0]

----------------------------------------------------------------------------
(* The save plan *)

\* plan.items: the shards of this writer, by index
Items == [i \in 1..NumItems |-> i]

\* planner.resolve_data(write_item): the bytes of a shard
Data(item) == 100 + item

DefaultPrefixStrategy(idx) == "__" \o ToString(idx) \o "_"

\* prepare_global_plan on the single plan of this writer (idx 0)
prepare_global_plan(items) ==
    [items |-> items, storage_data |-> [prefix |-> DefaultPrefixStrategy(0)]]

\* _split_by_size_and_type(bins, items) with bins = thread_count = 1
_split_by_size_and_type(items) == <<items>>

----------------------------------------------------------------------------
(* S3StorageWriter.write_data *)

gen_file(storage_plan, file_count) ==
    storage_plan.prefix \o ToString(file_count) \o DEFAULT_SUFFIX

\* the batches one replica's loop iterates over
Batches(self, plan) ==
    IF self.single_file_per_rank
    THEN _split_by_size_and_type(plan.items)
    ELSE [j \in 1..Len(plan.items) |-> <<plan.items[j]>>]

\* variant: every replica's files go under copy-0
Enqueued_copy0(self, copy, file_name, batch) ==
    LET relative_path == <<"copy-" \o ToString(0), file_name>>
        full_path == concat_path(self.path, relative_path)
    IN [full_path |-> full_path, storage_key |-> <<file_name>>, items |-> batch]

\* what one iteration puts in the queue
Enqueued(self, copy, file_name, batch) ==
    LET relative_path == <<"copy-" \o ToString(copy), file_name>>
        full_path == concat_path(self.path, relative_path)
    IN IF self.single_file_per_rank
       THEN [full_path |-> full_path, storage_key |-> <<file_name>>, items |-> batch]
       ELSE [full_path |-> full_path, storage_key |-> relative_path, items |-> batch]

\* variant: the counter runs on from one replica to the next
NextCopyCount_running(file_count) == file_count

\* file_count = 0 after each replica's loop
NextCopyCount(file_count) == 0

\* for copy in range(self.num_copies): for batch in ...: file_queue.put(...)
RECURSIVE FillQueue(_, _, _, _, _)
FillQueue(self, plan, copy, k, st) ==
    LET batches == Batches(self, plan)
    IN IF copy >= self.num_copies THEN st.file_queue
       ELSE IF k > Len(batches)
       THEN FillQueue(self, plan, copy + 1, 1,
                      [st EXCEPT !.file_count = NextCopyCount(st.file_count)])
       ELSE LET file_name == gen_file(plan.storage_data, st.file_count)
            IN FillQueue(self, plan, copy, k + 1,
                         [file_queue |-> Append(st.file_queue,
                                                Enqueued(self, copy, file_name, batches[k])),
                          file_count |-> st.file_count + 1])

\* FileSystemWriter.write_data, taken when num_copies <= 1: files under the root
RootQueue(self, plan) ==
    LET batches == Batches(self, plan)
    IN [k \in 1..Len(batches) |->
           LET file_name == gen_file(plan.storage_data, k - 1)
           IN [full_path |-> concat_path(self.path, <<file_name>>),
               storage_key |-> <<file_name>>, items |-> batches[k]]]

file_queue_of(self, plan) ==
    IF self.num_copies <= 1
    THEN RootQueue(self, plan)
    ELSE FillQueue(self, plan, 0, 1, [file_queue |-> <<>>, file_count |-> 0])

\* one file of the queue: its items written one after the other
FileContent(entry) ==
    [kind |-> "shards", body |-> [j \in 1..Len(entry.items) |-> Data(entry.items[j])]]

WriteResults(entry) ==
    [j \in 1..Len(entry.items) |->
        [index |-> entry.items[j],
         storage_data |-> [relative_path |-> entry.storage_key, offset |-> j, length |-> 1]]]

\* _write_data(planner, file_queue) in the calling thread: the files are
\* uploaded in queue order; the first `good` uploads succeed and the next,
\* if any, raises `fault`.
RECURSIVE _write_data(_, _, _, _, _, _)
_write_data(w, file_queue, k, good, fault, res) ==
    IF k > Len(file_queue) THEN [w |-> w, err |-> NoErr, val |-> res]
    ELSE LET entry == file_queue[k]
             p == create_stream_wb(w, entry.full_path, FileContent(entry),
                                   IF k <= good THEN "ok" ELSE fault)
         IN IF p.err # NoErr THEN [w |-> p.w, err |-> p.err, val |-> <<>>]
            ELSE _write_data(p.w, file_queue, k + 1, good, fault, res \o WriteResults(entry))

\* variant: a failed upload is swallowed and write_data returns what was written
write_data_swallow(self, plan, w, good, fault) ==
    [_write_data(w, file_queue_of(self, plan), 1, good, fault, <<>>) EXCEPT !.err = NoErr]

write_data(self, plan, w, good, fault) ==
    _write_data(w, file_queue_of(self, plan), 1, good, fault, <<>>)

----------------------------------------------------------------------------
(* The replication flag: a string is the sequence of its "=" characters
   and of the runs of other characters between them *)

\* f"num_copies={self.num_copies}"
FormatFlag(num_copies) == <<"num_copies", "=", ToString(num_copies)>>

\* str.split("="): the parts between the separators
RECURSIVE SplitEq(_, _, _)
SplitEq(s, i, parts) ==
    IF i > Len(s) THEN parts
    ELSE IF s[i] = "="
    THEN SplitEq(s, i + 1, Append(parts, ""))
    ELSE SplitEq(s, i + 1,
                 [parts EXCEPT ![Len(parts)] = parts[Len(parts)] \o s[i]])

split(s) == SplitEq(s, 1, <<"">>)

\* int(text): the decimal numbers the model can meet
IntRange == 0..9
IsInt(text) == \E n \in IntRange : ToString(n) = text
int(text) == CHOOSE n \in IntRange : ToString(n) = text

----------------------------------------------------------------------------
(* S3StorageWriter.finish *)

None == [none |-> TRUE]
\* None in an integer field (assigned_copy, rank)
NoInt == -1
StorageMeta(modules) == [modules |-> modules]

pickle_dump(md) == [kind |-> "pickle", body |-> md]

\* variant: the metadata is written at the canonical key itself
tmp_path_canonical(self) == concat_path(self.path, <<_metadata_fn>>)

metadata_path(self) == concat_path(self.path, <<_metadata_fn>>)
tmp_path_of(self) == concat_path(self.path, <<_metadata_fn \o ".tmp">>)

\* storage_md.update({wr.index: wr.storage_data for wr in wr_list}), list by list
RECURSIVE MergeResults(_, _, _)
MergeResults(wr_list, k, storage_md) ==
    IF k > Len(wr_list) THEN storage_md
    ELSE MergeResults(wr_list, k + 1,
            [i \in (DOMAIN storage_md) \cup {wr_list[k].index} |->
                IF i = wr_list[k].index THEN wr_list[k].storage_data ELSE storage_md[i]])

RECURSIVE MergeAll(_, _, _)
MergeAll(results, r, storage_md) ==
    IF r > Len(results) THEN storage_md
    ELSE MergeAll(results, r + 1, MergeResults(results[r], 1, storage_md))

\* where the flag goes in the modules list
AddFlag(modules, flag) == Append(modules, flag)

\* the metadata object as finish leaves it before serializing it
Finalized(self, md, results) ==
    LET storage_meta == IF md.storage_meta = None THEN StorageMeta(<<>>)
                        ELSE md.storage_meta
    IN [storage_data |-> MergeAll(results, 1, <<>>),
        storage_meta |-> StorageMeta(AddFlag(storage_meta.modules,
                                             FormatFlag(self.num_copies)))]

\* variant: a probe that raised is taken for "the object is there"
Commit_despite_probe(self, w, tmp_path, o) ==
    LET e == exists(w, metadata_path(self), o.head)
        d == IF e.val \/ e.err # NoErr THEN rm_file(e.w, metadata_path(self), o.rm) ELSE e
    IN IF d.err # NoErr THEN d
       ELSE rename(d.w, tmp_path, metadata_path(self), o)

\* what finish does once the temporary object is written
Commit(self, w, tmp_path, o) ==
    LET e == exists(w, metadata_path(self), o.head)
    IN IF e.err # NoErr THEN e
       ELSE LET d == IF e.val THEN rm_file(e.w, metadata_path(self), o.rm) ELSE e
            IN IF d.err # NoErr THEN d
               ELSE rename(d.w, tmp_path, metadata_path(self), o)

\* variant: the canonical key is probed and cleared before the temporary
\* object is written
finish_probe_first(self, md, results, w, o) ==
    LET tmp_path == tmp_path_of(self)
        e == exists(w, metadata_path(self), o.head)
        w2 == IF e.val THEN rm_file(e.w, metadata_path(self), o.rm).w ELSE e.w
        p == create_stream_wb(w2, tmp_path, pickle_dump(Finalized(self, md, results)), o.put)
    IN IF e.err # NoErr THEN e
       ELSE IF p.err # NoErr THEN p
       ELSE rename(p.w, tmp_path, metadata_path(self), o)

finish(self, md, results, w, o) ==
    LET tmp_path == tmp_path_of(self)
        p == create_stream_wb(w, tmp_path, pickle_dump(Finalized(self, md, results)), o.put)
    IN IF p.err # NoErr THEN p
       ELSE Commit(self, p.w, tmp_path, o)

----------------------------------------------------------------------------
(* S3StorageReader *)

\* variant: when the canonical object is missing, the temporary one is read
super_read_metadata_tmp_fallback(self, store, out) ==
    LET canonical == concat_path(self.path, <<_metadata_fn>>)
        g == create_stream_rb(store,
                              IF Has(store, canonical) THEN canonical
                              ELSE concat_path(self.path, <<_metadata_fn \o ".tmp">>),
                              out)
    IN IF g.err # NoErr THEN [err |-> g.err, val |-> None]
       ELSE IF g.val.kind # "pickle" THEN [err |-> PyError("UnpicklingError"), val |-> None]
       ELSE [err |-> NoErr,
             val |-> IF g.val.body.storage_meta = None
                     THEN [g.val.body EXCEPT !.storage_meta = StorageMeta(<<>>)]
                     ELSE g.val.body]

\* FileSystemReader.read_metadata: the canonical object, unpickled; a missing
\* storage_meta is replaced by an empty one
super_read_metadata(self, store, out) ==
    LET g == create_stream_rb(store, concat_path(self.path, <<_metadata_fn>>), out)
    IN IF g.err # NoErr THEN [err |-> g.err, val |-> None]
       ELSE IF g.val.kind # "pickle" THEN [err |-> PyError("UnpicklingError"), val |-> None]
       ELSE [err |-> NoErr,
             val |-> IF g.val.body.storage_meta = None
                     THEN [g.val.body EXCEPT !.storage_meta = StorageMeta(<<>>)]
                     ELSE g.val.body]

\* which entry of the modules list is parsed
FlagIndex == 1

\* int(metadata.storage_meta.modules[0].split("=")[1])
ParseNumCopies(modules) ==
    IF Len(modules) < FlagIndex THEN [err |-> PyError("IndexError"), val |-> 0]
    ELSE LET parts == split(modules[FlagIndex])
         IN IF Len(parts) < 2 THEN [err |-> PyError("IndexError"), val |-> 0]
            ELSE IF ~IsInt(parts[2]) THEN [err |-> PyError("ValueError"), val |-> 0]
            ELSE [err |-> NoErr, val |-> int(parts[2])]

\* returns the reader as it is left, the error raised and the metadata returned
read_metadata(self, store, out) ==
    LET m == super_read_metadata(self, store, out)
    IN IF m.err # NoErr THEN [self |-> self, err |-> m.err, val |-> None]
       ELSE LET n == ParseNumCopies(m.val.storage_meta.modules)
            IN IF n.err # NoErr THEN [self |-> self, err |-> n.err, val |-> None]
               ELSE [self |-> [self EXCEPT !.num_copies = n.val], err |-> NoErr, val |-> m.val]

\* variant: the rank stays unset when the distributed context gives none
RankOf_unset(d) == IF d.state = "initialized" THEN d.rank ELSE NoInt

\* dist.get_rank() if dist.is_initialized() else 0; 0 when the query raises
RankOf(d) == IF d.state = "initialized" THEN d.rank ELSE 0

set_up_storage_reader(self, md, d) ==
    LET s1 == [self EXCEPT !.storage_data = md.storage_data, !.rank = RankOf(d)]
    IN IF s1.num_copies > 1 THEN [s1 EXCEPT !.assigned_copy = s1.rank] ELSE s1

\* FileSystemReader.read_data: the items grouped by the file that holds them
\* (in the order the files are first met), each file fetched once from
\* concat_path(self.path, relative_path) and sliced per item.  The first
\* `good` fetches get the outcome "ok", the next one `fault`.
RECURSIVE PerFile(_, _, _, _)
PerFile(storage_data, items, k, files) ==
    IF k > Len(items) THEN files
    ELSE LET rel == storage_data[items[k]].relative_path
         IN PerFile(storage_data, items, k + 1,
                    IF \E f \in 1..Len(files) : files[f] = rel THEN files
                    ELSE Append(files, rel))

Slice(obj, item_md) ==
    IF obj.kind = "shards" /\ item_md.offset \in 1..Len(obj.body)
    THEN obj.body[item_md.offset] ELSE -1

RECURSIVE ReadFiles(_, _, _, _, _, _, _)
ReadFiles(self, items, store, files, f, oracle, acc) ==
    IF f > Len(files) THEN [acc EXCEPT !.err = NoErr]
    ELSE LET new_path == concat_path(self.path, files[f])
             g == create_stream_rb(store, new_path,
                                   IF f <= oracle.good THEN "ok" ELSE oracle.fault)
             gets == Append(acc.gets, [path |-> new_path, err |-> g.err])
         IN IF g.err # NoErr
            THEN [acc EXCEPT !.gets = gets, !.err = g.err]
            ELSE ReadFiles(self, items, store, files, f + 1, oracle,
                    [acc EXCEPT !.gets = gets,
                                !.delivered =
                                    [i \in (DOMAIN acc.delivered) \cup
                                           {items[k] : k \in {k \in 1..Len(items) :
                                               self.storage_data[items[k]].relative_path = files[f]}}
                                     |-> IF i \in DOMAIN acc.delivered THEN acc.delivered[i]
                                         ELSE Slice(g.val, self.storage_data[i])]])

super_read_data(self, items, store, oracle) ==
    LET acc0 == [gets |-> <<>>, delivered |-> <<>>, err |-> NoErr]
    IN IF \E k \in 1..Len(items) : items[k] \notin DOMAIN self.storage_data
       THEN [acc0 EXCEPT !.err = PyError("KeyError")]
       ELSE ReadFiles(self, items, store, PerFile(self.storage_data, items, 1, <<>>),
                      1, oracle, acc0)

\* variant: the path is restored only when the read succeeded
RestoredOnSuccess(original_path, copy_path, err) ==
    IF err = NoErr THEN original_path ELSE copy_path

\* the path the reader is left with when the try block is left (finally)
Restored(original_path, copy_path, err) == original_path

\* returns the reader as it is left and the outcome of the read
read_data(self, items, store, oracle) ==
    IF self.num_copies <= 1 \/ self.assigned_copy = NoInt
    THEN [self |-> self, used |-> self.path,
          out |-> super_read_data(self, items, store, oracle)]
    ELSE LET original_path == self.path
             copy_path == concat_path(self.path, <<"copy-" \o ToString(self.assigned_copy)>>)
             r == super_read_data([self EXCEPT !.path = copy_path], items, store, oracle)
         IN [self |-> [self EXCEPT !.path = Restored(original_path, copy_path, r.err)],
             used |-> copy_path, out |-> r]

----------------------------------------------------------------------------------------------------------------------------------------
(* Initial states *)

Root == <<"bkt", "ck pt">>

EmptyStore == [p \in {} |-> 0]

\* A bucket in which an earlier, unreplicated checkpoint was committed under the root
PrevStore(root) ==
    LET name == gen_file([prefix |-> DefaultPrefixStrategy(0)], 0)
        md == [storage_data |-> [i \in 1..NumItems |->
                                    [relative_path |-> <<name>>, offset |-> i, length |-> 1]],
               storage_meta |-> StorageMeta(<<FormatFlag(1)>>)]
    IN StorePut(StorePut(EmptyStore, concat_path(root, <<name>>),
                         [kind |-> "shards", body |-> [i \in 1..NumItems |-> 200 + i]]),
                concat_path(root, <<_metadata_fn>>), pickle_dump(md))

\* A bucket in which an earlier checkpoint was committed under the root by a
\* writer with MaxCopies + 1 replicas, one file per rank
PrevReplicated(root) ==
    LET self == [path |-> root, num_copies |-> MaxCopies + 1, single_file_per_rank |-> TRUE]
        queue == file_queue_of(self, prepare_global_plan(Items))
        md == [storage_data |-> MergeResults(WriteResults(queue[1]), 1, <<>>),
               storage_meta |-> StorageMeta(<<FormatFlag(self.num_copies)>>)]
        objects == {queue[k].full_path : k \in 1..Len(queue)} \cup {metadata_path(self)}
    IN [p \in objects |->
           IF p = metadata_path(self) THEN pickle_dump(md)
           ELSE [kind |-> "shards", body |-> [i \in 1..NumItems |-> 200 + i]]]

\* what the bucket may hold under the root before the save
PrevStores(root) == {EmptyStore, PrevStore(root), PrevReplicated(root)}

\* the storage_meta of the Metadata object the planner hands to finish: none,
\* an empty one, or one that already carries the flag of an earlier finish
StorageMetas ==
    {None, StorageMeta(<<>>)} \cup {StorageMeta(<<FormatFlag(n)>>) : n \in 1..MaxCopies}

\* what torch.distributed answers when the reader is set up
Dists ==
    {[state |-> "uninitialized", rank |-> 0], [state |-> "broken", rank |-> 0]}
    \cup {[state |-> "initialized", rank |-> r] : r \in 0..MaxCopies}

NoCall == [op |-> "none", old |-> <<>>, new |-> <<>>, o |-> <<>>, err |-> NoErr,
           val |-> FALSE, before |-> EmptyStore]

NewSave(store) ==
    [pc |-> "plan", file_queue |-> <<>>, results |-> <<>>, err |-> NoErr,
     store0 |-> store, storage_meta0 |-> None]

\* S3StorageReader.__init__
NewReader(path) ==
    [path |-> path, num_copies |-> 1, assigned_copy |-> NoInt, rank |-> NoInt,
     storage_data |-> <<>>]

NoRead == [gets |-> <<>>, delivered |-> <<>>, err |-> NoErr, used |-> <<>>]

\* which of the two metadata keys held an object when read_metadata ran
NotSeen == [tmp |-> FALSE, canonical |-> FALSE]

\* the callers of read_data, and a call that has not started
Callers == 1..MaxCallers

Idle ==
    [pc |-> "idle", bypass |-> FALSE, original_path |-> <<>>, copy_path |-> <<>>,
     files |-> <<>>, gets |-> <<>>, err |-> NoErr]

NoThreads == [t \in Callers |-> Idle]

NewLoad ==
    [pc |-> "new", metadata |-> None, err |-> NoErr, seen |-> NotSeen,
     reads |-> 0, last |-> NoRead]

Init ==
    \E n \in 1..MaxCopies, sfpr \in BOOLEAN, store \in PrevStores(Root) :
        /\ world = [store |-> store, calls |-> <<>>]
        /\ writer = [path |-> Root, num_copies |-> n, single_file_per_rank |-> sfpr]
        /\ metadata = [storage_data |-> <<>>, storage_meta |-> None]
        /\ save = NewSave(store)
        /\ reader = NewReader(Root)
        /\ load = NewLoad
        /\ dist = [state |-> "uninitialized", rank |-> 0]
        /\ fs = NoCall
        /\ threads = NoThreads

----------------------------------------------------------------------------
(* The save: write_data, then finish when write_data returned *)

Faults == Outcomes \ {"ok"}

Plan == prepare_global_plan(Items)

\* the first `good` uploads succeed, the next one (if any) times out
WriteData ==
    /\ save.pc = "plan"
    /\ \E good \in 0..Len(file_queue_of(writer, Plan)) :
          LET r == write_data(writer, Plan, world, good, TransientMsg)
          IN /\ world' = r.w
             /\ save' = [save EXCEPT !.pc = IF r.err = NoErr THEN "written" ELSE "failed",
                                     !.file_queue = file_queue_of(writer, Plan),
                                     !.results = <<r.val>>,
                                     !.err = r.err]
    /\ UNCHANGED <<writer, metadata, reader, load, dist, fs, threads>>

\* The outcomes of the requests finish may issue.  The delete of rename is
\* answered `fails` times with `fault`, then "ok"; a request that is not
\* reached (the one before it failed) has the outcome "ok".
DelOutcomes(fails, fault) == [n \in 1..MaxAttempts |-> IF n <= fails THEN fault ELSE "ok"]

\* the answers to the successive deletes of one rename: any faults, up to
\* the first delete that succeeds
DelSeqs ==
    {s \in [1..MaxAttempts -> Outcomes] :
        \A n \in 1..(MaxAttempts - 1) : s[n] = "ok" => s[n + 1] = "ok"}

RenameOracles ==
    {o \in [copy : {"ok", DeniedMsg}, del : DelSeqs] :
        o.copy # "ok" => o.del = DelOutcomes(0, TransientMsg)}

FinishOracles ==
    {o \in [put : {"ok", TransientMsg}, head : Outcomes, rm : {"ok", DeniedMsg},
            copy : {"ok", DeniedMsg},
            del : {DelOutcomes(fails, fault) : fails \in 0..MaxAttempts, fault \in Faults}] :
        /\ o.put # "ok" => o.head = "ok"
        /\ (o.put # "ok" \/ o.head # "ok") => (o.rm = "ok" /\ o.copy = "ok")
        /\ (o.put # "ok" \/ o.head # "ok" \/ o.copy # "ok") => o.del = DelOutcomes(0, TransientMsg)}

Finish ==
    /\ save.pc = "written"
    /\ \E o \in FinishOracles, sm \in StorageMetas :
          LET md == [metadata EXCEPT !.storage_meta = sm]
              r == finish(writer, md, save.results, world, o)
          IN /\ world' = r.w
             /\ metadata' = Finalized(writer, md, save.results)
             /\ save' = [save EXCEPT !.pc = IF r.err = NoErr THEN "done" ELSE "finish_failed",
                                     !.err = r.err,
                                     !.storage_meta0 = sm]
    /\ UNCHANGED <<writer, reader, load, dist, fs, threads>>

----------------------------------------------------------------------------
(* The load: read_metadata, set_up_storage_reader, read_data *)

ReadMetadata ==
    /\ load.pc = "new"
    /\ \E out \in {"ok", TransientMsg} :
          LET r == read_metadata(reader, world.store, out)
          IN /\ reader' = r.self
             /\ load' = [load EXCEPT !.pc = IF r.err = NoErr THEN "metadata" ELSE "failed",
                                     !.metadata = r.val,
                                     !.err = r.err,
                                     !.seen = [tmp |-> Has(world.store, tmp_path_of(reader)),
                                               canonical |-> Has(world.store, metadata_path(reader))]]
    /\ UNCHANGED <<world, writer, metadata, save, dist, fs, threads>>

SetUpStorageReader ==
    /\ load.pc = "metadata"
    /\ \E d \in Dists :
          /\ dist' = d
          /\ reader' = set_up_storage_reader(reader, load.metadata, d)
    /\ load' = [load EXCEPT !.pc = "ready"]
    /\ UNCHANGED <<world, writer, metadata, save, fs, threads>>

ReadOracles == [good : 0..NumItems, fault : {TransientMsg}]

ReadData ==
    /\ load.pc = "ready"
    /\ load.reads < MaxReads
    /\ \E oracle \in ReadOracles :
          LET r == read_data(reader, Items, world.store, oracle)
          IN /\ reader' = r.self
             /\ load' = [load EXCEPT !.reads = @ + 1,
                                     !.last = [gets |-> r.out.gets,
                                               delivered |-> r.out.delivered,
                                               err |-> r.out.err,
                                               used |-> r.used]]
    /\ UNCHANGED <<world, writer, metadata, save, dist, fs, threads>>

Next == WriteData \/ Finish \/ ReadMetadata \/ SetUpStorageReader \/ ReadData

Spec == Init /\ [][Next]_vars

----------------------------------------------------------------------------
(* S3FileSystem called directly: rename, exists and rm_file on a bucket
   holding any objects at a few keys of two buckets.  The call log is
   that of the last call. *)

FSPaths == {tmp_path_of([path |-> Root]), metadata_path([path |-> Root]),
            <<"other">> \o Tail(metadata_path([path |-> Root]))}

Blob(n) == [kind |-> "blob", body |-> n]

FSStores ==
    UNION {[held -> {Blob(1), Blob(2)}] : held \in SUBSET FSPaths}

InitFS ==
    /\ world \in [store : FSStores, calls : {<<>>}]
    /\ writer = [path |-> Root, num_copies |-> 1, single_file_per_rank |-> TRUE]
    /\ metadata = [storage_data |-> <<>>, storage_meta |-> None]
    /\ save = NewSave(EmptyStore)
    /\ reader = NewReader(Root)
    /\ load = NewLoad
    /\ dist = [state |-> "uninitialized", rank |-> 0]
    /\ fs = NoCall
    /\ threads = NoThreads

Fresh == [store |-> world.store, calls |-> <<>>]

FsRename ==
    /\ \E old_path \in FSPaths, new_path \in FSPaths, o \in RenameOracles :
          LET r == rename(Fresh, old_path, new_path, o)
          IN /\ world' = r.w
             /\ fs' = [op |-> "rename", old |-> old_path, new |-> new_path, o |-> o,
                       err |-> r.err, val |-> FALSE, before |-> world.store]
    /\ UNCHANGED <<writer, metadata, save, reader, load, dist, threads>>

FsExists ==
    /\ \E path \in FSPaths, out \in Outcomes :
          LET r == exists(Fresh, path, out)
          IN /\ world' = r.w
             /\ fs' = [op |-> "exists", old |-> path, new |-> <<>>, o |-> <<out>>,
                       err |-> r.err, val |-> r.val, before |-> world.store]
    /\ UNCHANGED <<writer, metadata, save, reader, load, dist, threads>>

FsRmFile ==
    /\ \E path \in FSPaths, out \in Outcomes :
          LET r == rm_file(Fresh, path, out)
          IN /\ world' = r.w
             /\ fs' = [op |-> "rm_file", old |-> path, new |-> <<>>, o |-> <<out>>,
                       err |-> r.err, val |-> FALSE, before |-> world.store]
    /\ UNCHANGED <<writer, metadata, save, reader, load, dist, threads>>

NextFS == FsRename \/ FsExists \/ FsRmFile

SpecFS == InitFS /\ [][NextFS]_vars

----------------------------------------------------------------------------
(* The load alone, on a checkpoint whose metadata object carries any list
   of entries in storage_meta.modules (the entries other writers or
   planners left there), or no storage_meta at all *)

\* entries that are not a replication flag: another key, a value that is no
\* number, an entry without "="
ForeignFlags == {<<"other", "=", "5">>, <<"num_copies", "=", "x">>, <<"v2">>}

Flags == {FormatFlag(n) : n \in 1..MaxCopies} \cup ForeignFlags

FlagLists == UNION {[1..k -> Flags] : k \in 0..MaxFlags}

\* the bucket after a save of `self` whose metadata object was serialized
\* with storage_meta
Saved(self, storage_meta) ==
    LET queue == file_queue_of(self, Plan)
        wr == write_data(self, Plan, [store |-> EmptyStore, calls |-> <<>>],
                         Len(queue), TransientMsg)
        md == [storage_data |-> MergeAll(<<wr.val>>, 1, <<>>),
               storage_meta |-> storage_meta]
    IN StorePut(wr.w.store, metadata_path(self), pickle_dump(md))

InitLoad ==
    \E n \in 1..MaxCopies, sfpr \in BOOLEAN,
       sm \in {None} \cup {StorageMeta(l) : l \in FlagLists} :
        /\ writer = [path |-> Root, num_copies |-> n, single_file_per_rank |-> sfpr]
        /\ world = [store |-> Saved(writer, sm), calls |-> <<>>]
        /\ metadata = world.store[metadata_path(writer)].body
        /\ save = NewSave(EmptyStore)
        /\ reader = NewReader(Root)
        /\ load = NewLoad
        /\ dist = [state |-> "uninitialized", rank |-> 0]
        /\ fs = NoCall
        /\ threads = NoThreads

NextLoad == ReadMetadata \/ SetUpStorageReader \/ ReadData

SpecLoad == InitLoad /\ [][NextLoad]_vars

----------------------------------------------------------------------------
(* read_data statement by statement, called by several threads on one
   reader that has read the metadata of a committed checkpoint and was set
   up.  Each statement reads or writes self.path as a whole. *)

InitReads ==
    \E n \in 1..MaxCopies, sfpr \in BOOLEAN, d \in Dists :
        /\ writer = [path |-> Root, num_copies |-> n, single_file_per_rank |-> sfpr]
        /\ world = [store |-> Saved(writer, StorageMeta(<<FormatFlag(n)>>)), calls |-> <<>>]
        /\ metadata = world.store[metadata_path(writer)].body
        /\ save = NewSave(EmptyStore)
        /\ LET m == read_metadata(NewReader(Root), world.store, "ok")
           IN /\ reader = set_up_storage_reader(m.self, m.val, d)
              /\ load = [NewLoad EXCEPT !.pc = "ready", !.metadata = m.val,
                                         !.seen = [tmp |-> FALSE, canonical |-> TRUE]]
        /\ dist = d
        /\ fs = NoCall
        /\ threads = NoThreads

Others == <<world, writer, metadata, save, load, dist, fs>>

\* if self.num_copies <= 1 or self.assigned_copy is None
CheckCopies ==
    \E t \in Callers :
        /\ threads[t].pc = "idle"
        /\ LET bypass == reader.num_copies <= 1 \/ reader.assigned_copy = NoInt
           IN threads' = [threads EXCEPT ![t].bypass = bypass,
                                         ![t].pc = IF bypass THEN "read" ELSE "save",
                                         ![t].files = PerFile(reader.storage_data, Items, 1, <<>>)]
        /\ UNCHANGED <<reader, Others>>

\* original_path = self.path
SaveOriginal ==
    \E t \in Callers :
        /\ threads[t].pc = "save"
        /\ threads' = [threads EXCEPT ![t].original_path = reader.path, ![t].pc = "concat"]
        /\ UNCHANGED <<reader, Others>>

\* copy_path = self.fs.concat_path(self.path, f"copy-{self.assigned_copy}")
ConcatCopyPath ==
    \E t \in Callers :
        /\ threads[t].pc = "concat"
        /\ threads' = [threads EXCEPT
                          ![t].copy_path = concat_path(reader.path,
                                               <<"copy-" \o ToString(reader.assigned_copy)>>),
                          ![t].pc = "assign"]
        /\ UNCHANGED <<reader, Others>>

\* self.path = copy_path
SubstitutePath ==
    \E t \in Callers :
        /\ threads[t].pc = "assign"
        /\ reader' = [reader EXCEPT !.path = threads[t].copy_path]
        /\ threads' = [threads EXCEPT ![t].pc = "read"]
        /\ UNCHANGED Others

\* super().read_data: the next file is fetched from
\* concat_path(self.path, relative_path), with self.path as it is now; a
\* failed fetch raises, and so ends the reading
FetchFile ==
    \E t \in Callers, out \in {"ok", TransientMsg} :
        /\ threads[t].pc = "read"
        /\ LET f == Len(threads[t].gets) + 1
               new_path == concat_path(reader.path, threads[t].files[f])
               g == create_stream_rb(world.store, new_path, out)
               over == g.err # NoErr \/ f = Len(threads[t].files)
           IN threads' = [threads EXCEPT
                             ![t].gets = Append(@, [base |-> reader.path, path |-> new_path,
                                                    err |-> g.err]),
                             ![t].err = g.err,
                             ![t].pc = IF ~over THEN "read"
                                       ELSE IF threads[t].bypass THEN "done" ELSE "restore"]
        /\ UNCHANGED <<reader, Others>>

\* finally: self.path = original_path
RestorePath ==
    \E t \in Callers :
        /\ threads[t].pc = "restore"
        /\ reader' = [reader EXCEPT !.path = threads[t].original_path]
        /\ threads' = [threads EXCEPT ![t].pc = "done"]
        /\ UNCHANGED Others

NextReads ==
    \/ CheckCopies \/ SaveOriginal \/ ConcatCopyPath
    \/ SubstitutePath \/ FetchFile \/ RestorePath

SpecReads == InitReads /\ [][NextReads]_vars

----------------------------------------------------------------------------
(* What the claims speak of *)

MetaPath == metadata_path(writer)
TmpPath == tmp_path_of(writer)

Calls == world.calls
Store == world.store

IsCall(k, op, path) == Calls[k].op = op /\ Calls[k].path = path
OkCall(k, op, path) == IsCall(k, op, path) /\ Calls[k].err = ""

\* the objects the writer uploaded
Written == {Calls[k].path : k \in {k \in 1..Len(Calls) : Calls[k].op = "put" /\ Calls[k].err = ""}}

\* the rename of finish copied the temporary object onto the canonical key
Committed == \E k \in 1..Len(Calls) : OkCall(k, "copy", MetaPath)

CopyDir(i) == concat_path(Root, <<"copy-" \o ToString(i)>>)

IsPrefix(p, q) == Len(p) <= Len(q) /\ SubSeq(q, 1, Len(p)) = p

\* a load that read the metadata this save committed, set up as rank r of the
\* N ranks of a save whose metadata object carried no flag before finish
LoadedAfterSave ==
    /\ save.pc = "done"
    /\ save.storage_meta0 \in {None, StorageMeta(<<>>)}
    /\ load.pc = "ready"
    /\ load.metadata = metadata

----------------------------------------------------------------------------
\* C1: with num_copies = N > 1, under both layout policies, a reader of rank
\* r < N that loads after write_data and finish resolves every shard of its
\* plan (root replaced by <root>/copy-r, joined with the relative location
\* the committed metadata records) to an object the writer wrote, and a read
\* that succeeds delivers the bytes the writer wrote for every shard.
C1_RoundTrip ==
    (/\ LoadedAfterSave
     /\ writer.num_copies > 1
     /\ dist.state = "initialized" /\ dist.rank < writer.num_copies)
    => /\ \A i \in 1..NumItems :
            concat_path(CopyDir(reader.rank), reader.storage_data[Items[i]].relative_path)
                \in Written
       /\ (load.reads > 0 /\ load.last.err = NoErr)
            => \A i \in 1..NumItems :
                  /\ Items[i] \in DOMAIN load.last.delivered
                  /\ load.last.delivered[Items[i]] = Data(Items[i])

\* C1 restricted to the single-file-per-rank layout
C1_RoundTripSingleFile == writer.single_file_per_rank => C1_RoundTrip

----------------------------------------------------------------------------
\* where the replicas of this writer go
ReplicaDirs ==
    IF writer.num_copies <= 1 THEN {Root} ELSE {CopyDir(i) : i \in 0..(writer.num_copies - 1)}

Holds(dir, item) ==
    \E p \in DOMAIN Store :
        /\ IsPrefix(dir, p) /\ Len(p) = Len(dir) + 1
        /\ p \in Written
        /\ Store[p].kind = "shards"
        /\ \E j \in 1..Len(Store[p].body) : Store[p].body[j] = Data(item)

----------------------------------------------------------------------------
\* C3: in finish, the temporary object is written (and its stream closed)
\* before the canonical key is probed or deleted; a delete of the canonical
\* key comes before the copy of the rename; the canonical key is written
\* only by a server-side copy from the temporary key.
C3_CommitOrder ==
    \A k \in 1..Len(Calls) :
        /\ (Calls[k].path = MetaPath /\ Calls[k].op \in {"head", "delete", "copy"})
            => \E j \in 1..(k - 1) : OkCall(j, "put", TmpPath)
        /\ IsCall(k, "delete", MetaPath)
            => \A c \in 1..Len(Calls) : IsCall(c, "copy", MetaPath) => k < c
        /\ (Calls[k].path = MetaPath /\ Calls[k].op \in {"put", "copy"})
            => (Calls[k].op = "copy" /\ Calls[k].src = TmpPath)

\* a finish that found stale metadata, deleted it and committed
C3_Witness ==
    /\ save.pc = "done"
    /\ \E j, k, c \in 1..Len(Calls) :
          /\ OkCall(j, "put", TmpPath)
          /\ OkCall(k, "delete", MetaPath)
          /\ OkCall(c, "copy", MetaPath)

----------------------------------------------------------------------------
SaveFailed == save.pc \in {"failed", "finish_failed"}

\* C4 as stated: whenever the write protocol ends in failure, no object
\* exists at the canonical key, whatever the bucket held before.
C4_NoMetadataAfterFailure == SaveFailed => ~Has(Store, MetaPath)

\* C4 as amended: a save that fails before the copy of the rename succeeded
\* leaves the canonical key as it was or empty (empty when it was empty
\* before); a save that fails in the delete of the rename has committed: the
\* canonical key holds the new metadata.
C4_FailureBeforeCopyCommitsNothing ==
    SaveFailed =>
        IF Committed
        THEN /\ Store[MetaPath] = pickle_dump(metadata)
             /\ IsCall(Len(Calls), "delete", TmpPath) /\ Calls[Len(Calls)].err # ""
        ELSE \/ ~Has(Store, MetaPath)
             \/ Has(save.store0, MetaPath) /\ Store[MetaPath] = save.store0[MetaPath]

\* a shard upload failed while an earlier checkpoint's metadata is committed
C4_Witness == save.pc = "failed" /\ Has(Store, MetaPath)

----------------------------------------------------------------------------
\* C5: when finish returns without error the canonical key holds the
\* metadata this finish serialized (an index entry for every shard, the
\* num_copies flag of this writer last in the flag list) and the temporary
\* key is gone, also when stale metadata was there and its delete failed.
C5_FinishPost ==
    save.pc = "done" =>
        /\ Has(Store, MetaPath)
        /\ Store[MetaPath] = pickle_dump(metadata)
        /\ DOMAIN Store[MetaPath].body.storage_data = {Items[i] : i \in 1..NumItems}
        /\ LET modules == Store[MetaPath].body.storage_meta.modules
           IN modules[Len(modules)] = FormatFlag(writer.num_copies)
        /\ ~Has(Store, TmpPath)

\* finish succeeded although the delete of the stale metadata failed
C5_Witness ==
    /\ save.pc = "done"
    /\ Has(save.store0, MetaPath)
    /\ \E k \in 1..Len(Calls) : IsCall(k, "delete", MetaPath) /\ Calls[k].err # ""

----------------------------------------------------------------------------
\* C6: read_metadata of the metadata committed by a writer with replication
\* factor N sets the reader's num_copies to N, whatever the flag list held
\* before finish.
C6_Discovery ==
    (/\ Committed
     /\ load.pc \in {"metadata", "ready"}
     /\ load.metadata = metadata)
    => reader.num_copies = writer.num_copies

----------------------------------------------------------------------------
\* the queue entries that write `item` under replica i
QueueOf(i, item) ==
    {k \in 1..Len(save.file_queue) :
        /\ IsPrefix(CopyDir(i), save.file_queue[k].full_path)
        /\ Len(save.file_queue[k].full_path) = Len(Root) + 2
        /\ \E j \in 1..Len(save.file_queue[k].items) : save.file_queue[k].items[j] = item}

ShardWrites ==
    {kj \in (1..Len(save.file_queue)) \X (1..NumItems) :
        kj[2] <= Len(save.file_queue[kj[1]].items)}

\* C7: with num_copies = N > 1, write_data enqueues every shard exactly once
\* for each replica i in 0..N-1, at <root>/copy-<i>/<file-name>; the shard
\* writes number N times the shards of the plan.
C7_FanOut ==
    (save.pc # "plan" /\ writer.num_copies > 1)
    => /\ \A i \in 0..(writer.num_copies - 1) : \A n \in 1..NumItems :
            Cardinality(QueueOf(i, Items[n])) = 1
       /\ Cardinality(ShardWrites) = writer.num_copies * NumItems
       /\ \A k \in 1..Len(save.file_queue) :
            \E i \in 0..(writer.num_copies - 1) :
                IsPrefix(CopyDir(i), save.file_queue[k].full_path)

\* a replicated write_data with one file per shard has returned
C7_Witness ==
    /\ save.pc = "written"
    /\ writer.num_copies > 1
    /\ ~writer.single_file_per_rank
    /\ Len(save.file_queue) = writer.num_copies * NumItems

----------------------------------------------------------------------------
\* C8: after every read_data of a reader with num_copies > 1 and an assigned
\* replica, successful or not, the path field is the original root; every
\* call reads with <root>/copy-<assigned> as its base path and fetches no
\* object from a path that nests the replica directory in itself; a failed
\* read raises its error.
C8_ScopedPath ==
    (load.reads > 0 /\ reader.num_copies > 1 /\ reader.assigned_copy # NoInt)
    => /\ reader.path = Root
       /\ load.last.used = CopyDir(reader.assigned_copy)
       /\ \A g \in 1..Len(load.last.gets) :
            /\ IsPrefix(load.last.used, load.last.gets[g].path)
            /\ load.last.gets[g].err = NoErr
                => ~IsPrefix(concat_path(load.last.used,
                                         <<"copy-" \o ToString(reader.assigned_copy)>>),
                             load.last.gets[g].path)
            /\ load.last.gets[g].err # NoErr => load.last.err = load.last.gets[g].err

\* a second read_data on the same reader, which failed
C8_Witness ==
    /\ load.reads >= 2
    /\ reader.num_copies > 1 /\ reader.assigned_copy # NoInt
    /\ load.last.err # NoErr
    /\ Len(load.last.gets) > 0

----------------------------------------------------------------------------
(* rename, under SpecFS *)

Renamed == fs.op = "rename" /\ Head(fs.old) = Head(fs.new)

CallsOf(op) == {k \in 1..Len(Calls) : Calls[k].op = op}

\* C9: rename within one bucket issues exactly one server-side copy
\* old -> new and no upload; deletes of old come after a successful copy;
\* when the copy fails its error is raised, nothing is deleted and the
\* bucket is unchanged; when rename returns, new holds what old held and
\* old is gone.
C9_CopyThenDelete ==
    Renamed =>
        /\ CallsOf("copy") = {1}
        /\ Calls[1].src = fs.old /\ Calls[1].path = fs.new
        /\ CallsOf("put") = {}
        /\ \A k \in CallsOf("delete") : Calls[k].path = fs.old /\ Calls[1].err = ""
        /\ Calls[1].err # ""
            => /\ fs.err = S3Exception(Calls[1].err)
               /\ Len(Calls) = 1
               /\ Store = fs.before
        /\ fs.err = NoErr
            => /\ Has(fs.before, fs.old)
               /\ Has(Store, fs.new) /\ Store[fs.new] = fs.before[fs.old]
               /\ ~Has(Store, fs.old)

\* a rename returned after it moved an object
C9_Witness ==
    /\ Renamed /\ fs.err = NoErr
    /\ Has(fs.before, fs.old) /\ ~Has(fs.before, fs.new)
    /\ Has(Store, fs.new)

\* a rename whose copy succeeds and whose delete fails twice, then succeeds
FailsTwice ==
    /\ Renamed
    /\ fs.old # fs.new /\ Has(fs.before, fs.old) /\ fs.o.copy = "ok"
    /\ fs.o.del[1] # "ok" /\ fs.o.del[2] # "ok" /\ fs.o.del[3] = "ok"

\* C10: when the delete of a rename fails on the first two attempts and
\* succeeds on the third, rename returns, with three deletes and one copy
\* issued and the old object gone.
C10_RetrySuccess ==
    FailsTwice =>
        /\ fs.err = NoErr
        /\ Cardinality(CallsOf("delete")) = 3
        /\ Cardinality(CallsOf("copy")) = 1
        /\ ~Has(Store, fs.old)

C10_Witness == FailsTwice /\ fs.err = NoErr

\* a rename whose copy succeeds and whose every delete fails
AllDeletesFail ==
    /\ Renamed
    /\ fs.old # fs.new /\ Has(fs.before, fs.old) /\ fs.o.copy = "ok"
    /\ \A n \in 1..MaxAttempts : fs.o.del[n] # "ok"

\* C11: when every delete of a rename fails with a store error, rename
\* issues exactly three deletes, raises the error of the last one, and
\* leaves both the old object and its copy at the new key in the bucket.
C11_RetryExhaustion ==
    AllDeletesFail =>
        /\ Cardinality(CallsOf("delete")) = MaxAttempts
        /\ Len(Calls) = MaxAttempts + 1
        /\ fs.err = S3Exception(fs.o.del[MaxAttempts])
        /\ Has(Store, fs.old) /\ Store[fs.old] = fs.before[fs.old]
        /\ Has(Store, fs.new) /\ Store[fs.new] = fs.before[fs.old]

\* the retries were exhausted on faults of different kinds
C11_Witness ==
    /\ AllDeletesFail
    /\ fs.o.del[1] # fs.o.del[MaxAttempts]
    /\ fs.err.type = "S3Exception"
    /\ Has(Store, fs.old) /\ Has(Store, fs.new)

\* a rename whose copy succeeds and whose first delete is refused for good
PermanentDeleteFailure ==
    /\ Renamed
    /\ fs.old # fs.new /\ Has(fs.before, fs.old) /\ fs.o.copy = "ok"
    /\ fs.o.del[1] = DeniedMsg

\* C12: when the delete of a rename fails with a permanent store error
\* (permission denied), the delete is issued exactly once and that error is
\* raised at once.
C12_PermanentNotRetried ==
    PermanentDeleteFailure =>
        /\ Cardinality(CallsOf("delete")) = 1
        /\ fs.err = S3Exception(DeniedMsg)

----------------------------------------------------------------------------
(* exists, under SpecFS *)

\* C13: exists issues one head probe and changes nothing; it returns TRUE
\* when the probe succeeds, FALSE only when the store answers that the
\* object was not found, and raises every other store error.
C13_ExistsDistinguishes ==
    fs.op = "exists" =>
        /\ Len(Calls) = 1 /\ IsCall(1, "head", fs.old)
        /\ Store = fs.before
        /\ Calls[1].err = "" => (fs.err = NoErr /\ fs.val = TRUE)
        /\ Calls[1].err = NotFoundMsg => (fs.err = NoErr /\ fs.val = FALSE)
        /\ Calls[1].err \notin {"", NotFoundMsg} => fs.err = S3Exception(Calls[1].err)
        /\ (fs.err = NoErr /\ fs.val = FALSE) => ~Has(fs.before, fs.old)
        /\ (fs.err = NoErr /\ fs.val = TRUE) => Has(fs.before, fs.old)

\* the probe of an object that is there was refused, and exists raised
C13_Witness ==
    /\ fs.op = "exists"
    /\ Has(fs.before, fs.old)
    /\ Len(Calls) = 1 /\ Calls[1].err = DeniedMsg
    /\ fs.err = S3Exception(DeniedMsg)

----------------------------------------------------------------------------
(* The load against an interrupted save *)

\* read_metadata ran on a bucket that held the temporary metadata object and
\* no canonical one
ReadInterrupted == load.pc # "new" /\ load.seen.tmp /\ ~load.seen.canonical

\* C14: read_metadata on a bucket where <root>/.metadata.tmp exists and
\* <root>/.metadata does not fails with an error: it returns no metadata
\* (none read from the temporary key) and leaves the reader, its num_copies
\* included, as it was constructed.
C14_InterruptedInvisible ==
    ReadInterrupted =>
        /\ load.pc = "failed"
        /\ load.err # NoErr
        /\ load.metadata = None
        /\ reader = NewReader(Root)

\* finish wrote the temporary object of a replicated save and failed before
\* the copy; the store then answered the read of the canonical key not-found
C14_Witness ==
    /\ ReadInterrupted
    /\ save.pc = "finish_failed" /\ writer.num_copies > 1
    /\ Has(Store, TmpPath) /\ ~Has(Store, MetaPath)
    /\ load.err = S3Exception(NotFoundMsg)

----------------------------------------------------------------------------
(* A reader whose rank has no replica *)

\* the last read_data of a rank r >= N on the checkpoint of N > 1 replicas
OutOfRangeRead ==
    /\ LoadedAfterSave
    /\ writer.num_copies > 1
    /\ reader.num_copies = writer.num_copies
    /\ reader.rank >= writer.num_copies
    /\ load.reads > 0

\* C15: on a checkpoint of N > 1 replicas, read_data of a reader of rank
\* r >= N raises an error and delivers no shard; no object is fetched from
\* the root or from a replica copy-<j>, j < N.
C15_OutOfRangeRank ==
    OutOfRangeRead =>
        /\ load.last.err # NoErr
        /\ load.last.delivered = <<>>
        /\ \A g \in 1..Len(load.last.gets) : load.last.gets[g].err # NoErr

----------------------------------------------------------------------------
(* The replication flag as read_metadata parses it, under SpecLoad *)

\* the modules list of the metadata object at the canonical key
StoredModules ==
    IF Store[MetaPath].body.storage_meta = None THEN <<>>
    ELSE Store[MetaPath].body.storage_meta.modules

\* the first entry is exactly num_copies=<integer>
WellFormedFlag ==
    /\ Len(StoredModules) >= 1
    /\ \E n \in IntRange : StoredModules[1] = <<"num_copies", "=", ToString(n)>>

\* C16: read_metadata of a metadata object whose replication flag is
\* absent (no storage_meta, empty modules list) or whose first entry is not
\* exactly num_copies=<integer> fails with an error and returns no metadata.
C16_DefensiveParsing ==
    (load.pc # "new" /\ load.seen.canonical /\ ~WellFormedFlag) =>
        /\ load.pc = "failed"
        /\ load.err # NoErr
        /\ load.metadata = None

----------------------------------------------------------------------------
(* The unreplicated layout *)

\* the key names an object directly under the root
UnderRoot(path) == Len(path) = Len(Root) + 1 /\ IsPrefix(Root, path)

\* the last read_data took the branch that leaves the path alone
Bypassed == load.reads > 0 /\ (reader.num_copies <= 1 \/ reader.assigned_copy = NoInt)

\* C17: a writer with num_copies <= 1 uploads every shard file directly
\* under the root, none under a copy-<i>/ prefix; a reader whose num_copies
\* is <= 1 or whose assigned replica is unset fetches every shard from a
\* key directly under the root, none from a copy-<i> subpath, and its path
\* field stays the root.
C17_UnreplicatedBypass ==
    /\ (writer.num_copies <= 1 /\ save.pc \notin {"plan"}) =>
           /\ \A k \in 1..Len(save.file_queue) : UnderRoot(save.file_queue[k].full_path)
           /\ \A k \in CallsOf("put") : Calls[k].path = TmpPath \/ UnderRoot(Calls[k].path)
    /\ Bypassed =>
           /\ load.last.used = Root
           /\ reader.path = Root
           /\ \A g \in 1..Len(load.last.gets) : UnderRoot(load.last.gets[g].path)

----------------------------------------------------------------------------
(* rename across buckets, under SpecFS *)

CrossBucket == fs.op = "rename" /\ Head(fs.old) # Head(fs.new)

\* C18: a rename whose old and new paths name different buckets raises an
\* error before any request is issued: no copy, no delete, and the buckets
\* hold what they held before.
C18_CrossBucketRejected ==
    CrossBucket =>
        /\ fs.err = PyError("ValueError")
        /\ Calls = <<>>
        /\ Store = fs.before

\* the rejected rename named an object that exists, and a free new key
C18_Witness ==
    /\ CrossBucket
    /\ Has(fs.before, fs.old) /\ ~Has(fs.before, fs.new)
    /\ fs.err.type = "ValueError"
    /\ Has(Store, fs.old) /\ ~Has(Store, fs.new)

----------------------------------------------------------------------------
(* rm_file, alone and inside finish *)

\* the deletes of the canonical metadata key (those of rm_file in finish;
\* rename deletes the temporary key)
StaleDeletes == {k \in CallsOf("delete") : Calls[k].path = MetaPath}

\* C19: rm_file issues exactly one delete, unchanged by its failure, and
\* returns without an error whatever the store answers; in finish, the
\* delete of the stale canonical metadata is issued once and, failed or
\* not, is followed by the copy of the rename.
C19_RemoveBestEffort ==
    /\ fs.op = "rm_file" =>
           /\ Len(Calls) = 1 /\ IsCall(1, "delete", fs.old)
           /\ fs.err = NoErr
    /\ save.pc \in {"done", "finish_failed"} =>
           /\ Cardinality(StaleDeletes) <= 1
           /\ \A k \in StaleDeletes :
                  /\ k < Len(Calls) /\ IsCall(k + 1, "copy", MetaPath)
                  /\ (\A j \in (k + 1)..Len(Calls) : Calls[j].err = "") => save.pc = "done"

\* finish returned although the delete of the stale metadata was refused
C19_Witness ==
    /\ save.pc = "done"
    /\ \E k \in StaleDeletes : Calls[k].err = DeniedMsg
    /\ Store[MetaPath] = pickle_dump(metadata)

----------------------------------------------------------------------------
(* set_up_storage_reader *)

\* C20: once set_up_storage_reader has run, rank is the rank the
\* distributed context reports when it is initialised and answers, and 0
\* otherwise; the assigned replica is rank when num_copies > 1 and unset
\* when num_copies <= 1; every key a later read_data of a rank
\* r < num_copies requests is under <root>/copy-<r>/.
C20_SetUpPost ==
    load.pc = "ready" =>
        /\ dist.state = "initialized" => reader.rank = dist.rank
        /\ dist.state # "initialized" => reader.rank = 0
        /\ reader.num_copies > 1 => reader.assigned_copy = reader.rank
        /\ reader.num_copies <= 1 => reader.assigned_copy = NoInt
        /\ reader.storage_data = load.metadata.storage_data
        /\ (load.reads > 0 /\ reader.num_copies > 1 /\ reader.rank < reader.num_copies) =>
               \A g \in 1..Len(load.last.gets) :
                   IsPrefix(CopyDir(reader.rank), load.last.gets[g].path)

\* the rank query raised, the reader of a replicated checkpoint fell back to
\* rank 0 and read from copy-0
C20_Witness ==
    /\ load.pc = "ready"
    /\ dist.state = "broken"
    /\ reader.num_copies > 1 /\ reader.rank = 0 /\ reader.assigned_copy = 0
    /\ load.reads > 0 /\ Len(load.last.gets) > 0
    /\ load.last.err = NoErr

----------------------------------------------------------------------------
(* The names write_data gives the files of the replicas *)

\* the files enqueued for one replica
FilesPerCopy == Len(save.file_queue) \div writer.num_copies

\* the m-th destination enqueued for replica i
Destination(i, m) == save.file_queue[i * FilesPerCopy + m].full_path

\* C21: within one write_data with num_copies > 1, the m-th file of every
\* replica i is <root>/copy-<i>/__0_<m-1>.distcp: the counter runs 0, 1,
\* 2, ... within a replica and restarts at 0 for the next one, the m-th
\* files of two replicas differ in the copy-<i> prefix only, and all
\* destinations are pairwise distinct.
C21_Naming ==
    (save.pc # "plan" /\ writer.num_copies > 1) =>
        /\ Len(save.file_queue) = FilesPerCopy * writer.num_copies
        /\ \A i \in 0..(writer.num_copies - 1) : \A m \in 1..FilesPerCopy :
               Destination(i, m) =
                   Root \o <<"copy-" \o ToString(i), "__0_" \o ToString(m - 1) \o ".distcp">>
        /\ \A k, l \in 1..Len(save.file_queue) :
               k # l => save.file_queue[k].full_path # save.file_queue[l].full_path

\* a replicated write_data enqueued more than one file for each replica
C21_Witness ==
    /\ save.pc # "plan" /\ writer.num_copies > 1
    /\ FilesPerCopy > 1
    /\ Destination(1, FilesPerCopy)[Len(Root) + 2] = Destination(0, FilesPerCopy)[Len(Root) + 2]

----------------------------------------------------------------------------
(* finish when the probe of the canonical key fails *)

\* the head requests that were answered with an error other than not-found
FailedProbes == {k \in CallsOf("head") : Calls[k].err \notin {"", NotFoundMsg}}

\* C22: when the existence probe of the canonical key in finish fails with
\* a store error other than not-found, finish raises that error; the probe
\* is its last request (no delete of the canonical metadata, no copy, no
\* delete of the temporary key), and the canonical key holds exactly what
\* it held before the save.
C22_FailedProbeAborts ==
    FailedProbes # {} =>
        /\ save.pc = "finish_failed"
        /\ \A k \in FailedProbes :
               /\ IsCall(k, "head", MetaPath)
               /\ k = Len(Calls)
               /\ save.err = S3Exception(Calls[k].err)
        /\ CallsOf("delete") = {} /\ CallsOf("copy") = {}
        /\ Has(Store, MetaPath) <=> Has(save.store0, MetaPath)
        /\ Has(Store, MetaPath) => Store[MetaPath] = save.store0[MetaPath]

\* the probe of an existing canonical object was refused after the
\* temporary object had been written
C22_Witness ==
    /\ FailedProbes # {}
    /\ Calls[Len(Calls)].err = DeniedMsg
    /\ Has(save.store0, MetaPath)
    /\ Has(Store, TmpPath) /\ Store[TmpPath] = pickle_dump(metadata)
    /\ save.err = S3Exception(DeniedMsg)

----------------------------------------------------------------------------
(* read_data called concurrently, under SpecReads *)

\* the calls that took the replica branch
Replicated(t) == threads[t].pc # "idle" /\ ~threads[t].bypass

\* C23: when read_data calls on one replicated reader interleave statement
\* by statement, every fetch of every call takes <root>/copy-<assigned> as
\* its base path, and once all calls have finished the path field of the
\* reader is the root.
C23_InterleavedReads ==
    /\ \A t \in Callers : Replicated(t) =>
           \A g \in 1..Len(threads[t].gets) :
               threads[t].gets[g].base = CopyDir(reader.assigned_copy)
    /\ ((\A t \in Callers : threads[t].pc = "done") /\ (\E t \in Callers : Replicated(t)))
           => reader.path = Root

====
